---- MODULE Spec2Model ----
(***************************************************************************)
(* A model of tools/analyzers/indexeddb.py: IndexedDBAnalyzer.analyze and  *)
(* its two helpers _infer_schema and _analyze_cardinality.                 *)
(*                                                                         *)
(* Python values are tagged records [tag, val]; the tag is the name of the *)
(* runtime type (type(value).__name__).  A Python dict is a TLA+ function  *)
(* whose DOMAIN is the set of keys that are present, so d.get(k, default)  *)
(* is Get(d, k, default).  A Python str that the code measures or compares *)
(* is a sequence of one-character strings, so len() and str() are modelled *)
(* by what they do.  A Python float that the code produces by a division   *)
(* of two small integers is the reduced fraction [num, den]: two such      *)
(* floats are equal exactly when the fractions are.                        *)
(***************************************************************************)
EXTENDS Integers, Sequences, FiniteSets, TLC

VARIABLES
    records,      \* the record list handed to the two helpers
    done,         \* which of the two helpers have returned
    schema,       \* what _infer_schema(records) returned
    cardinality,  \* what _analyze_cardinality(records) returned
    snapshot,     \* the 'indexedDB' list the analyzer was constructed from
    data,         \* self.data
    returned      \* what the calls of analyze() returned, in call order

vars == <<records, done, schema, cardinality, snapshot, data, returned>>

(***************************************************************************)
(* Bounds of the model.                                                    *)
(***************************************************************************)
MaxRecords == 3   \* longest record list built from the full record alphabet
MaxSparse == 8    \* longest record list built from the two sparse records
MaxDbs == 2       \* most databases in a snapshot
MaxStores == 2    \* most stores in a snapshot, over all its databases
MaxCalls == 2     \* most calls of analyze() on one analyzer

(***************************************************************************)
(* Python values.                                                          *)
(***************************************************************************)
PyNone == [tag |-> "NoneType", val |-> <<>>]
PyBool(b) == [tag |-> "bool", val |-> b]
PyInt(n) == [tag |-> "int", val |-> n]
\* the float units + tenths/10, e.g. PyFloat(1, 5) is 1.5
PyFloat(units, tenths) == [tag |-> "float", val |-> <<units, tenths>>]
PyStr(chars) == [tag |-> "str", val |-> chars]
\* a list of ints
PyList(items) == [tag |-> "list", val |-> items]
\* the empty dict and the empty tuple
PyDict == [tag |-> "dict", val |-> <<>>]
PyTuple == [tag |-> "tuple", val |-> <<>>]

EmptyDict == <<>>

\* d.get(k, default)
Get(d, k, default) == IF k \in DOMAIN d THEN d[k] ELSE default

Digit(d) == CASE d = 0 -> "0" [] d = 1 -> "1" [] d = 2 -> "2" [] d = 3 -> "3"
              [] d = 4 -> "4" [] d = 5 -> "5" [] d = 6 -> "6" [] d = 7 -> "7"
              [] d = 8 -> "8" [] d = 9 -> "9"

RECURSIVE ToDecimal(_)
\* the decimal digits of an integer, as str(n) and "%.0f" print them
ToDecimal(n) ==
    IF n < 0 THEN <<"-">> \o ToDecimal(0 - n)
    ELSE IF n < 10 THEN <<Digit(n)>>
    ELSE ToDecimal(n \div 10) \o <<Digit(n % 10)>>

RECURSIVE JoinInts(_)
\* ", ".join(repr(x) for x in items)
JoinInts(items) ==
    IF items = <<>> THEN <<>>
    ELSE IF Len(items) = 1 THEN ToDecimal(items[1])
    ELSE ToDecimal(items[1]) \o <<",", " ">> \o JoinInts(Tail(items))

\* str(v)
PyStrOf(v) ==
    CASE v.tag = "NoneType" -> <<"N", "o", "n", "e">>
      [] v.tag = "bool" -> IF v.val THEN <<"T", "r", "u", "e">>
                           ELSE <<"F", "a", "l", "s", "e">>
      [] v.tag = "int" -> ToDecimal(v.val)
      [] v.tag = "float" -> ToDecimal(v.val[1]) \o <<".">> \o ToDecimal(v.val[2])
      [] v.tag = "str" -> v.val
      [] v.tag = "list" -> <<"[">> \o JoinInts(v.val) \o <<"]">>
      [] v.tag = "dict" -> <<"{", "}">>
      [] v.tag = "tuple" -> <<"(", ")">>

RECURSIVE GCD(_, _)
GCD(a, b) == IF b = 0 THEN a ELSE GCD(b, a % b)

\* a / b for ints a >= 0, b > 0: the float, as a reduced fraction
TrueDiv(a, b) == [num |-> a \div GCD(a, b), den |-> b \div GCD(a, b)]

RECURSIVE SumSeq(_)
\* sum(xs)
SumSeq(xs) == IF xs = <<>> THEN 0 ELSE xs[1] + SumSeq(Tail(xs))

RECURSIVE MaxSeq(_)
\* max(xs), xs not empty
MaxSeq(xs) ==
    IF Len(xs) = 1 THEN xs[1]
    ELSE LET m == MaxSeq(Tail(xs)) IN IF xs[1] >= m THEN xs[1] ELSE m

(***************************************************************************)
(* _infer_schema                                                           *)
(***************************************************************************)
\* isinstance(value, cls): bool is a subclass of int
IsInstance(value, cls) ==
    \/ value.tag = cls
    \/ cls = "int" /\ value.tag = "bool"

\* the if/elif chain that sets field_type
TypeTag(value) ==
    IF value.tag = "NoneType" THEN "null"
    ELSE IF IsInstance(value, "bool") THEN "boolean"
    ELSE IF IsInstance(value, "int") THEN "number"
    ELSE IF IsInstance(value, "str") THEN "string"
    ELSE IF IsInstance(value, "list") THEN "array"
    ELSE IF IsInstance(value, "dict") THEN "object"
    ELSE value.tag

\* [r for r in records if key in r]
Containing(recs, key) == SelectSeq(recs, LAMBDA r : key \in DOMAIN r)

\* sum(1 for r in records if key in r)
CountContaining(recs, key) == Len(Containing(recs, key))

\* a mutant: the percentage is truncated, as int(x) would
FormatPercentTruncated(count, total) ==
    ToDecimal((100 * count) \div total) \o <<"%">>

\* f"{count/total*100:.0f}%".  The format rounds the float to the nearest
\* integer, an exact half to the even one.  For total < 40 the float
\* count/total*100 is a half exactly when 100*count/total is, so the
\* digits are those of the exact quotient rounded half to even.
FormatPercent(count, total) ==
    LET q == (100 * count) \div total
        twice == 2 * ((100 * count) % total)
        n == IF twice > total THEN q + 1
             ELSE IF twice < total THEN q
             ELSE IF q % 2 = 0 THEN q ELSE q + 1
    IN  ToDecimal(n) \o <<"%">>

\* a mutant: only the values that are strings are measured
LengthsOfStringsOnly(recs, key) ==
    LET having == SelectSeq(recs, LAMBDA r : key \in DOMAIN r /\ r[key].tag = "str")
    IN  [i \in 1..Len(having) |-> Len(PyStrOf(having[i][key]))]

\* [len(str(r.get(key, ''))) for r in records if key in r]
Lengths(recs, key) ==
    LET having == Containing(recs, key)
    IN  [i \in 1..Len(having) |-> Len(PyStrOf(Get(having[i], key, PyStr(<<>>))))]

\* the body of the loop over first.items(): the value of schema[key]
FieldSchema(recs, key, value) ==
    LET field_type == TypeTag(value)
        presence == FormatPercent(CountContaining(recs, key), Len(recs))
        lengths == Lengths(recs, key)
    IN  IF field_type = "string" /\ lengths # <<>>
        THEN [type |-> field_type, presence |-> presence,
              max_length |-> MaxSeq(lengths),
              avg_length |-> TrueDiv(SumSeq(lengths), Len(lengths))]
        ELSE [type |-> field_type, presence |-> presence]

\* a mutant: the fields are the union of the keys of all the records, each
\* with the value of the first record that has it
FirstMerged(recs) ==
    [key \in UNION {DOMAIN recs[i] : i \in 1..Len(recs)} |->
        Containing(recs, key)[1][key]]

\* first = records[0], in both helpers
First(recs) == recs[1]

_infer_schema(recs) ==
    IF recs = <<>> THEN EmptyDict
    ELSE [key \in DOMAIN First(recs) |->
            FieldSchema(recs, key, First(recs)[key])]

(***************************************************************************)
(* _analyze_cardinality                                                    *)
(***************************************************************************)
\* [r.get(key) for r in records if key in r]
ValuesOf(recs, key) ==
    LET having == Containing(recs, key)
    IN  [i \in 1..Len(having) |-> Get(having[i], key, PyNone)]

\* a mutant: the values themselves are compared, not their str()
UniqueByValue(values) ==
    Cardinality({values[i] : i \in 1..Len(values)})

\* len(set(str(v) for v in values))
Unique(values) ==
    Cardinality({PyStrOf(values[i]) : i \in 1..Len(values)})

\* a mutant: the ratio is taken over the records that have the key
CardinalityRatioOfPresent(unique, recs, key) ==
    TrueDiv(unique, CountContaining(recs, key))

\* unique / len(records)
CardinalityRatio(unique, recs, key) == TrueDiv(unique, Len(recs))

_analyze_cardinality(recs) ==
    IF recs = <<>> THEN EmptyDict
    ELSE [key \in DOMAIN First(recs) |->
            LET unique == Unique(ValuesOf(recs, key))
            IN  [unique_values |-> unique,
                 cardinality_ratio |-> CardinalityRatio(unique, recs, key)]]

(***************************************************************************)
(* The record lists the helpers are applied to.                            *)
(***************************************************************************)
\* one value of every type the if/elif chain tells apart; str(1) = str("1")
Values ==
    { PyNone, PyBool(TRUE), PyInt(1), PyFloat(1, 5), PyStr(<<"1">>),
      PyStr(<<"a", "n", "n">>), PyList(<<1>>), PyDict, PyTuple }

\* a record has any subset of the fields id and name
Records ==
    UNION { [D -> Values] : D \in SUBSET {"name"} }
    \cup { r @@ ("id" :> PyInt(1)) : r \in UNION { [D -> Values] : D \in SUBSET {"name"} } }

\* the record without fields and the record with the one field name
SparseRecords == { EmptyDict, "name" :> PyStr(<<"a", "n", "n">>) }

\* the record list is at most MaxRecords records, or at most MaxSparse
\* sparse ones
InitRecords ==
    /\ \/ \E n \in 0..MaxRecords : records \in [1..n -> Records]
       \/ \E n \in 0..MaxSparse : records \in [1..n -> SparseRecords]
    /\ done = {}
    /\ schema = EmptyDict
    /\ cardinality = EmptyDict
    /\ snapshot = <<>>
    /\ data = <<>>
    /\ returned = <<>>

\* a call of _infer_schema(records)
InferSchema ==
    /\ "_infer_schema" \notin done
    /\ schema' = _infer_schema(records)
    /\ done' = done \cup {"_infer_schema"}
    /\ UNCHANGED <<records, cardinality, snapshot, data, returned>>

\* a call of _analyze_cardinality(records)
AnalyzeCardinality ==
    /\ "_analyze_cardinality" \notin done
    /\ cardinality' = _analyze_cardinality(records)
    /\ done' = done \cup {"_analyze_cardinality"}
    /\ UNCHANGED <<records, schema, snapshot, data, returned>>

NextRecords == InferSchema \/ AnalyzeCardinality

SpecRecords == InitRecords /\ [][NextRecords]_vars

(***************************************************************************)
(* analyze                                                                 *)
(***************************************************************************)
\* d[k] = v
Put(d, k, v) == [x \in DOMAIN d \cup {k} |-> IF x = k THEN v ELSE d[x]]

Unknown == PyStr(<<"u", "n", "k", "n", "o", "w", "n">>)

\* db_name = db.get('name', 'unknown')
DbName(db) == Get(db, "name", Unknown)

\* a mutant: a store without a name gets the default a database gets
StoreNameDefaulted(store) == Get(store, "name", Unknown)

\* store_name = store.get('name')
StoreName(store) == Get(store, "name", PyNone)

\* a mutant: the records are counted even when a count is declared
RecordCountOfRecords(store, recs) == PyInt(Len(recs))

\* store.get('count', len(records))
RecordCount(store, recs) == Get(store, "count", PyInt(Len(recs)))

\* the value of result[db_name]['stores'][store_name]
StoreEntry(store) ==
    LET recs == Get(store, "records", <<>>)
    IN  [record_count |-> RecordCount(store, recs),
         key_path |-> Get(store, "keyPath", PyNone),
         indexes |-> Get(store, "indexes", <<>>),
         schema |-> _infer_schema(recs),
         cardinality |-> _analyze_cardinality(recs)]

RECURSIVE AnalyzeStores(_, _)
\* the loop over db.get('stores', []), on result[db_name]['stores']
AnalyzeStores(entries, stores) ==
    IF stores = <<>> THEN entries
    ELSE AnalyzeStores(Put(entries, StoreName(stores[1]), StoreEntry(stores[1])),
                       Tail(stores))

\* a mutant: a database name seen before keeps the stores it has, as
\* result.setdefault(db_name, ...) would
DbEntryKept(result, db) ==
    [version |-> Get(db, "version", PyNone),
     stores |-> IF DbName(db) \in DOMAIN result
                THEN result[DbName(db)].stores ELSE EmptyDict]

\* result[db_name] = {'version': db.get('version'), 'stores': {}}
DbEntry(result, db) ==
    [version |-> Get(db, "version", PyNone), stores |-> EmptyDict]

RECURSIVE AnalyzeDbs(_, _)
\* the loop over self.data, on result
AnalyzeDbs(result, dbs) ==
    IF dbs = <<>> THEN result
    ELSE LET db == dbs[1]
             entry == DbEntry(result, db)
             filled == [entry EXCEPT !.stores =
                            AnalyzeStores(entry.stores, Get(db, "stores", <<>>))]
         IN  AnalyzeDbs(Put(result, DbName(db), filled), Tail(dbs))

\* the value analyze() returns
analyze(dbs) == AnalyzeDbs(EmptyDict, dbs)

\* a mutant: analyze() consumes the databases it walks, as popping them off
\* self.data would
DataConsumed(dbs) == <<>>

\* self.data after analyze(): the method only reads it
DataAfterAnalyze(dbs) == dbs

\* self.data = data.get('indexedDB', [])
Construct(input) == Get(input, "indexedDB", <<>>)

(***************************************************************************)
(* The snapshots the analyzer is constructed from.                         *)
(***************************************************************************)
Ann == PyStr(<<"a", "n", "n">>)
NameA == PyStr(<<"a">>)
NameB == PyStr(<<"b">>)
NameApp == PyStr(<<"a", "p", "p">>)
KeyPathId == PyStr(<<"i", "d">>)
IndexByName == PyStr(<<"b", "y", "N", "a", "m", "e">>)

\* a store with nothing declared; a store with everything declared, whose
\* count is not the number of its records; a second store named a, without
\* count and key path; a store with an empty record list; a store without
\* name and records, with a count
StoreSamples ==
    { EmptyDict,
      [name |-> NameA, count |-> PyInt(7), keyPath |-> KeyPathId,
       indexes |-> <<IndexByName>>,
       records |-> << [id |-> PyInt(1), name |-> Ann], [name |-> PyInt(1)] >>],
      [name |-> NameA, records |-> << [id |-> PyInt(1)] >>],
      [name |-> NameB, records |-> <<>>, indexes |-> <<>>],
      [count |-> PyInt(7)] }

\* what a database declares besides its stores
DbHeaders ==
    { EmptyDict,
      [name |-> Unknown, version |-> PyInt(2)],
      [name |-> NameApp] }

\* a database with no stores has no 'stores' key, or the empty list when
\* the head keeps the key
DbHeads ==
    { [decl |-> h, keepsKey |-> FALSE] : h \in DbHeaders }
    \cup { [decl |-> EmptyDict, keepsKey |-> TRUE] }

Db(head, stores) ==
    IF stores = <<>> /\ ~head.keepsKey THEN head.decl
    ELSE head.decl @@ ("stores" :> stores)

RECURSIVE Snapshot(_, _, _)
\* the databases heads[i], the i-th holding the next counts[i] stores of flat
Snapshot(heads, counts, flat) ==
    IF heads = <<>> THEN <<>>
    ELSE <<Db(heads[1], SubSeq(flat, 1, counts[1]))>>
         \o Snapshot(Tail(heads), Tail(counts), SubSeq(flat, counts[1] + 1, Len(flat)))

\* the state after IndexedDBAnalyzer(input): the input has no 'indexedDB'
\* key, or a list of at most MaxDbs databases with at most MaxStores stores
Init ==
    /\ \E d \in 0..MaxDbs : \E heads \in [1..d -> DbHeads] :
         \E counts \in [1..d -> 0..MaxStores] :
            /\ SumSeq(counts) <= MaxStores
            /\ \E flat \in [1..SumSeq(counts) -> StoreSamples] :
                 \E input \in { EmptyDict,
                                 [indexedDB |-> Snapshot(heads, counts, flat)] } :
                    /\ snapshot = Construct(input)
                    /\ data = Construct(input)
    /\ returned = <<>>
    /\ records = <<>>
    /\ done = {}
    /\ schema = EmptyDict
    /\ cardinality = EmptyDict

\* a call of analyze()
Analyze ==
    /\ Len(returned) < MaxCalls
    /\ returned' = Append(returned, analyze(data))
    /\ data' = DataAfterAnalyze(data)
    /\ UNCHANGED <<snapshot, records, done, schema, cardinality>>

Next == Analyze

Spec == Init /\ [][Next]_vars

(***************************************************************************)
(* Properties of the two helpers, under SpecRecords.                       *)
(***************************************************************************)
SchemaDone == "_infer_schema" \in done
CardinalityDone == "_analyze_cardinality" \in done

\* the positions of the records that contain key
Having(key) == { i \in 1..Len(records) : key \in DOMAIN records[i] }

\* the keys of the first record; none when there is no record
FirstKeys == IF records = <<>> THEN {} ELSE DOMAIN records[1]

\* the length of str() of the value of key in the i-th record
StrLen(i, key) == Len(PyStrOf(records[i][key]))

RECURSIVE SumOver(_, _)
SumOver(S, key) ==
    IF S = {} THEN 0
    ELSE LET i == CHOOSE x \in S : TRUE IN StrLen(i, key) + SumOver(S \ {i}, key)

\* the type tag the specification gives a value
SpecTypeTag(value) ==
    CASE value.tag = "NoneType" -> "null"
      [] value.tag = "bool" -> "boolean"
      [] value.tag \in {"int", "float"} -> "number"
      [] value.tag = "str" -> "string"
      [] value.tag = "list" -> "array"
      [] value.tag = "dict" -> "object"
      [] OTHER -> value.tag

\* C1: every field of the schema has the type tag the precedence null,
\* boolean, number (integer or float), string, array, object, runtime type
\* name gives the first record's value.
C1_TypeTagBySpecPrecedence ==
    SchemaDone =>
        \A key \in FirstKeys :
            /\ key \in DOMAIN schema
            /\ schema[key].type = SpecTypeTag(records[1][key])

\* C2: the presence of every field of the first record is "<n>%" where n
\* in 0..100 is an integer nearest to 100 * (records with the key) / (all
\* records): n differs from the quotient by at most a half.
C2_PresenceIsNearestPercent ==
    (SchemaDone /\ records # <<>>) =>
        \A key \in DOMAIN records[1] :
            /\ key \in DOMAIN schema
            /\ \E n \in 0..100 :
                 /\ schema[key].presence = ToDecimal(n) \o <<"%">>
                 /\ LET diff == n * Len(records) - 100 * Cardinality(Having(key))
                    IN  /\ 2 * diff <= Len(records)
                        /\ 2 * (0 - diff) <= Len(records)

\* one record of eight has the field: 12.5 is printed as 12%
C2_Witness ==
    /\ SchemaDone
    /\ Len(records) = 8
    /\ Having("name") = {1}
    /\ schema["name"].presence = <<"1", "2", "%">>

\* C3: cardinality_ratio is unique_values / len(records), the denominator
\* being the length of the whole record list, and lies in [0, 1].
C3_RatioOverAllRecords ==
    (CardinalityDone /\ records # <<>>) =>
        \A key \in DOMAIN records[1] :
            /\ key \in DOMAIN cardinality
            /\ LET ratio == cardinality[key].cardinality_ratio
               IN  /\ ratio.den > 0
                   /\ ratio.num * Len(records) = cardinality[key].unique_values * ratio.den
                   /\ 0 <= ratio.num
                   /\ ratio.num <= ratio.den

\* a field of the first record that a later record lacks
C3_Witness ==
    /\ CardinalityDone
    /\ Len(records) = 3
    /\ Having("name") = {1, 2}
    /\ cardinality["name"].unique_values = 2
    /\ cardinality["name"].cardinality_ratio = [num |-> 2, den |-> 3]

\* C4: unique_values is the number of distinct str() forms of the values
\* of the key over the records that contain it: it counts the records that
\* contain the key and whose value has a str() no earlier such record has.
C4_UniqueCountsStringForms ==
    (CardinalityDone /\ records # <<>>) =>
        \A key \in DOMAIN records[1] :
            /\ key \in DOMAIN cardinality
            /\ cardinality[key].unique_values =
                 Cardinality({ i \in Having(key) :
                     \A j \in Having(key) :
                         j < i => PyStrOf(records[j][key]) # PyStrOf(records[i][key]) })

\* the number 1, the string "1" and a record without the field
C4_Witness ==
    /\ CardinalityDone
    /\ Len(records) = 3
    /\ Having("name") = {1, 3}
    /\ records[1]["name"] = PyInt(1)
    /\ records[3]["name"] = PyStr(<<"1">>)
    /\ cardinality["name"].unique_values = 1

\* C5: the fields of the schema and the fields of the cardinality are the
\* keys of the first record, and both mappings are empty when there is no
\* record.
C5_FieldsOfFirstRecord ==
    /\ SchemaDone => DOMAIN schema = FirstKeys
    /\ CardinalityDone => DOMAIN cardinality = FirstKeys
    /\ (SchemaDone /\ records = <<>>) => schema = EmptyDict
    /\ (CardinalityDone /\ records = <<>>) => cardinality = EmptyDict

\* the first record alone has id, a later record alone has name
C5_Witness ==
    /\ SchemaDone
    /\ CardinalityDone
    /\ Len(records) = 2
    /\ DOMAIN records[1] = {"id"}
    /\ DOMAIN records[2] = {"name"}
    /\ DOMAIN schema = {"id"}
    /\ DOMAIN cardinality = {"id"}

\* C7: a field is tagged string exactly when the first record's value is a
\* string; such a field has max_length, the greatest, and avg_length, the
\* mean, of the lengths of str() of its value over the records that
\* contain it; any other field has type and presence only.
C7_StringLengths ==
    (SchemaDone /\ records # <<>>) =>
        \A key \in DOMAIN records[1] :
            /\ key \in DOMAIN schema
            /\ (schema[key].type = "string") = (records[1][key].tag = "str")
            /\ IF schema[key].type = "string"
               THEN /\ DOMAIN schema[key] = {"type", "presence", "max_length", "avg_length"}
                    /\ \A i \in Having(key) : StrLen(i, key) <= schema[key].max_length
                    /\ \E i \in Having(key) : StrLen(i, key) = schema[key].max_length
                    /\ schema[key].avg_length.den > 0
                    /\ schema[key].avg_length.num * Cardinality(Having(key))
                         = SumOver(Having(key), key) * schema[key].avg_length.den
               ELSE DOMAIN schema[key] = {"type", "presence"}

\* a string in the first record, None in the second: lengths 3 and 4
C7_Witness ==
    /\ SchemaDone
    /\ Len(records) = 3
    /\ Having("name") = {1, 2}
    /\ records[1]["name"] = PyStr(<<"a", "n", "n">>)
    /\ records[2]["name"] = PyNone
    /\ schema["name"].type = "string"
    /\ schema["name"].max_length = 4
    /\ schema["name"].avg_length = [num |-> 7, den |-> 2]

(***************************************************************************)
(* Properties of analyze, under Spec.                                      *)
(***************************************************************************)
\* the key a database is reported under
SpecDbKey(db) ==
    IF "name" \in DOMAIN db THEN db["name"]
    ELSE PyStr(<<"u", "n", "k", "n", "o", "w", "n">>)

\* the key a store is reported under
SpecStoreKey(store) == IF "name" \in DOMAIN store THEN store["name"] ELSE PyNone

\* the stores and the records that were supplied
StoresOf(db) == IF "stores" \in DOMAIN db THEN db["stores"] ELSE <<>>
RecordsOf(store) == IF "records" \in DOMAIN store THEN store["records"] ELSE <<>>

\* the i-th database is the last of the snapshot with its key
IsLastDb(i) ==
    \A j \in (i + 1)..Len(snapshot) : SpecDbKey(snapshot[j]) # SpecDbKey(snapshot[i])

\* the j-th store of db is the last of db with its key
IsLastStore(db, j) ==
    \A k \in (j + 1)..Len(StoresOf(db)) :
        SpecStoreKey(StoresOf(db)[k]) # SpecStoreKey(StoresOf(db)[j])

\* <<c, i, j>>: the c-th call, a database i that is the last with its key
\* and a store j of it that is the last with its key
ReportedStores ==
    { t \in (1..Len(returned)) \X (1..Len(snapshot)) \X (1..MaxStores) :
        /\ IsLastDb(t[2])
        /\ t[3] <= Len(StoresOf(snapshot[t[2]]))
        /\ IsLastStore(snapshot[t[2]], t[3]) }

StoreAt(t) == StoresOf(snapshot[t[2]])[t[3]]

\* the c-th call reports the database and the store
HasEntryAt(t) ==
    /\ SpecDbKey(snapshot[t[2]]) \in DOMAIN returned[t[1]]
    /\ SpecStoreKey(StoreAt(t)) \in DOMAIN returned[t[1]][SpecDbKey(snapshot[t[2]])].stores

\* what the c-th call reports for the store
EntryAt(t) == returned[t[1]][SpecDbKey(snapshot[t[2]])].stores[SpecStoreKey(StoreAt(t))]

\* C6: record_count is the declared count of the store when it has one,
\* and the number of records supplied otherwise.
C6_RecordCountPrefersDeclared ==
    \A t \in ReportedStores :
        /\ HasEntryAt(t)
        /\ EntryAt(t).record_count =
                IF "count" \in DOMAIN StoreAt(t) THEN StoreAt(t)["count"]
                ELSE PyInt(Len(RecordsOf(StoreAt(t))))

\* a store that declares 7 records and supplies 2 is reported with 7
C6_Witness ==
    /\ returned # <<>>
    /\ Len(snapshot) = 1
    /\ Len(StoresOf(snapshot[1])) = 1
    /\ LET store == StoresOf(snapshot[1])[1]
       IN  /\ "count" \in DOMAIN store
           /\ store["count"] = PyInt(7)
           /\ Len(RecordsOf(store)) = 2
           /\ returned[1][SpecDbKey(snapshot[1])].stores[SpecStoreKey(store)].record_count
                = PyInt(7)

\* C8: a database without name is reported under "unknown" and a store
\* without name under None; a missing version and a missing keyPath are
\* reported as None, missing stores, indexes and records as empty.
C8_MissingFieldDefaults ==
    /\ \A c \in 1..Len(returned) : \A i \in 1..Len(snapshot) :
         LET db == snapshot[i] IN
         /\ "name" \notin DOMAIN db =>
                PyStr(<<"u", "n", "k", "n", "o", "w", "n">>) \in DOMAIN returned[c]
         /\ IsLastDb(i) =>
                /\ SpecDbKey(db) \in DOMAIN returned[c]
                /\ "version" \notin DOMAIN db =>
                        returned[c][SpecDbKey(db)].version = PyNone
                /\ "stores" \notin DOMAIN db =>
                        returned[c][SpecDbKey(db)].stores = EmptyDict
                /\ \A j \in 1..Len(StoresOf(db)) :
                        "name" \notin DOMAIN StoresOf(db)[j] =>
                            PyNone \in DOMAIN returned[c][SpecDbKey(db)].stores
    /\ \A t \in ReportedStores :
         /\ HasEntryAt(t)
         /\ "keyPath" \notin DOMAIN StoreAt(t) => EntryAt(t).key_path = PyNone
         /\ "indexes" \notin DOMAIN StoreAt(t) => EntryAt(t).indexes = <<>>
         /\ "records" \notin DOMAIN StoreAt(t) =>
                /\ EntryAt(t).schema = EmptyDict
                /\ EntryAt(t).cardinality = EmptyDict
                /\ "count" \notin DOMAIN StoreAt(t) => EntryAt(t).record_count = PyInt(0)

\* a database that declares only a store that declares nothing
C8_Witness ==
    /\ returned # <<>>
    /\ snapshot = << [stores |-> << EmptyDict >>] >>
    /\ DOMAIN returned[1] = { PyStr(<<"u", "n", "k", "n", "o", "w", "n">>) }
    /\ LET entry == returned[1][PyStr(<<"u", "n", "k", "n", "o", "w", "n">>)]
       IN  /\ entry.version = PyNone
           /\ DOMAIN entry.stores = { PyNone }
           /\ entry.stores[PyNone].key_path = PyNone
           /\ entry.stores[PyNone].record_count = PyInt(0)

C10_LastOfEachNameWins ==
    /\ \A c \in 1..Len(returned) :
         /\ DOMAIN returned[c] = { SpecDbKey(snapshot[i]) : i \in 1..Len(snapshot) }
         /\ \A i \in 1..Len(snapshot) :
              IsLastDb(i) =>
                LET db == snapshot[i]
                    entry == returned[c][SpecDbKey(db)]
                IN  /\ entry.version =
                         (IF "version" \in DOMAIN db THEN db["version"] ELSE PyNone)
                    /\ DOMAIN entry.stores =
                         { SpecStoreKey(StoresOf(db)[j]) : j \in 1..Len(StoresOf(db)) }
    /\ \A t \in ReportedStores :
         /\ HasEntryAt(t)
         /\ EntryAt(t) = StoreEntry(StoreAt(t))

\* two databases under the key "unknown": the first has a store and no
\* version, the second has version 2 and no store
C10_Witness ==
    /\ returned # <<>>
    /\ Len(snapshot) = 2
    /\ "name" \notin DOMAIN snapshot[1]
    /\ "version" \notin DOMAIN snapshot[1]
    /\ Len(StoresOf(snapshot[1])) = 1
    /\ SpecDbKey(snapshot[2]) = SpecDbKey(snapshot[1])
    /\ StoresOf(snapshot[2]) = <<>>
    /\ DOMAIN returned[1] = { SpecDbKey(snapshot[1]) }
    /\ returned[1][SpecDbKey(snapshot[1])] = [version |-> PyInt(2), stores |-> EmptyDict]

====
